---- MODULE Spec2Model ----
(***************************************************************************)
(* Model of the chessgame cog (src/chessgame/chessgame.py): the command    *)
(* handlers of ChessGame acting on the per-channel persisted store of      *)
(* named games, and the Game engine they call.  The engine (chessgame/     *)
(* game.py) is not part of the sources at hand; it is modelled from its    *)
(* specification, over an abstract board: each side has a knight that      *)
(* walks forth and back along a path of squares and a king that may leave  *)
(* and return to its home square; pawn moves and captures are              *)
(* irreversible and counted.                                               *)
(***************************************************************************)
EXTENDS Integers, Sequences, FiniteSets, TLC

VARIABLES store, last, pend

vars == <<store, last, pend>>

(***************************************************************************)
(* Bounds of the model and the input sets of the commands.                 *)
(***************************************************************************)
MaxGames == 3
MaxPlies == 2
MaxLongPlies == 109
MaxResets == 1
MaxRivalGames == 2
ShufflePlies == 8

Channels == {"c1"}
Members == {1, 2, 3}
NoArg == "<none>"
NameArgs == {NoArg, "game1"}
TypeArgs == {NoArg, "Shogi"}
Sans == {"Nf3", "e4", "Nxe5", "Qxf7#", "c7", "Zz9"}
NoMember == 0

(***************************************************************************)
(* The Game engine (spec-modelled).                                        *)
(***************************************************************************)
FiftyMoveClock == 100
StartMaterial == 1
KnightPath == 63
Variants == {"Standard", "Atomic"}
Colors == {"white", "black"}

Other(color) == IF color = "white" THEN "black" ELSE "white"

StartBoard ==
  [knight |-> [c \in Colors |-> 0],
   king |-> [c \in Colors |-> FALSE],
   pawns |-> 0,
   material |-> StartMaterial]

\* The identity of a position: placement, side to move, castling rights,
\* en-passant target.
PositionKey(g) == <<g.board, g.turn, g.castling, g.ep>>

GameTypeValid(game_type) == game_type = NoArg \/ game_type \in Variants

\* Game(player_black_id, player_white_id, game_type)
GameNew(player_black_id, player_white_id, game_type) ==
  LET rights == [c \in Colors |-> TRUE]
  IN [player_white_id |-> player_white_id,
      player_black_id |-> player_black_id,
      type |-> IF game_type = NoArg THEN "Standard" ELSE game_type,
      board |-> StartBoard,
      turn |-> "white",
      castling |-> rights,
      ep |-> FALSE,
      clock |-> 0,
      moves |-> <<>>,
      snapshots |-> << <<StartBoard, "white", rights, FALSE>> >>,
      state |-> "InProgress",
      fifty |-> FALSE,
      threefold |-> FALSE]

\* Game.order: (turn_color, player_turn, player_next)
GameOrder(g) ==
  IF g.turn = "white"
  THEN <<"White", g.player_white_id, g.player_black_id>>
  ELSE <<"Black", g.player_black_id, g.player_white_id>>

GameTotalMoves(g) == Len(g.moves)

\* Parser + Board Model: the text resolves to a legal move of the position.
LegalSan(g, san) ==
  /\ g.state = "InProgress"
  /\ CASE san = "Nf3" -> g.board.knight[g.turn] < KnightPath
       [] san = "Ng1" -> g.board.knight[g.turn] > 0
       [] san = "e4" -> TRUE
       [] san = "Ke2" -> g.board.pawns >= 1
       [] san = "Nxe5" -> g.board.pawns >= 1 /\ g.board.material > 0
       [] san = "Qxf7#" -> g.board.pawns >= 1 /\ g.board.material > 0
       [] san = "c7" -> g.board.pawns >= 1
       [] OTHER -> FALSE

IsPawnMove(san) == san \in {"e4", "c7"}
IsCapture(san) == san \in {"Nxe5", "Qxf7#"}

\* Board Model: apply(position, move), the placement part
ApplyBoard(b, color, san) ==
  CASE san = "Nf3" -> [b EXCEPT !.knight[color] = @ + 1]
    [] san = "Ng1" -> [b EXCEPT !.knight[color] = @ - 1]
    [] san = "Ke2" -> [b EXCEPT !.king[color] = ~@]
    [] IsPawnMove(san) -> [b EXCEPT !.pawns = @ + 1]
    [] IsCapture(san) -> [b EXCEPT !.material = @ - 1]
    [] OTHER -> b

HalfMoveClock(clock, san) ==
  IF IsPawnMove(san) \/ IsCapture(san) THEN 0 ELSE clock + 1

TerminalState(b, san) ==
  CASE san = "Qxf7#" -> "Checkmate"
    [] san = "c7" -> "Stalemate"
    [] b.material = 0 -> "InsufficientMaterial"
    [] OTHER -> "InProgress"

Occurrences(snapshots, key) ==
  Cardinality({i \in 1..Len(snapshots) : snapshots[i] = key})

\* Draw Claim Evaluator
ClaimableFifty(clock) == clock >= FiftyMoveClock
ClaimableThreefold(snapshots) ==
  Occurrences(snapshots, snapshots[Len(snapshots)]) >= 3

\* Game.move_piece(move): raises ValueError, or applies the move and returns
\* is_game_over
GameMovePiece(g, san) ==
  IF ~LegalSan(g, san)
  THEN [raised |-> TRUE, game |-> g, is_game_over |-> FALSE]
  ELSE
    LET b == ApplyBoard(g.board, g.turn, san)
        moved == [g EXCEPT
                    !.board = b,
                    !.turn = Other(g.turn),
                    !.castling = IF san = "Ke2"
                                 THEN [@ EXCEPT ![g.turn] = FALSE] ELSE @,
                    !.ep = (san = "e4"),
                    !.clock = HalfMoveClock(g.clock, san),
                    !.moves = Append(@, san),
                    !.state = TerminalState(b, san)]
        snaps == Append(g.snapshots, PositionKey(moved))
        over == moved.state # "InProgress"
    IN [raised |-> FALSE,
        game |-> [moved EXCEPT
                    !.snapshots = snaps,
                    !.fifty = IF over THEN @ ELSE ClaimableFifty(moved.clock),
                    !.threefold = IF over THEN @ ELSE ClaimableThreefold(snaps)],
        is_game_over |-> over]

GameCanClaimDraw(g) == g.fifty \/ g.threefold

(***************************************************************************)
(* Persistence: the channel's "games" value of the Config, a jsonpickle    *)
(* text or nothing when it was never set.                                  *)
(***************************************************************************)
NoValue == [isset |-> FALSE, text |-> {}]

\* jsonpickle.encode of a dict of games: the set of its key/value members
JsonEncode(games) == {<<n, games[n]>> : n \in DOMAIN games}

\* jsonpickle.decode: the dict rebuilt from the members
JsonDecode(text) ==
  [n \in {p[1] : p \in text} |-> (CHOOSE p \in text : p[1] = n)[2]]

\* A _get_games that takes the text of an empty dict for no text.
GetGamesFalsy(raw) ==
  IF raw.isset /\ raw.text # {}
  THEN [none |-> FALSE, dict |-> JsonDecode(raw.text)]
  ELSE [none |-> TRUE, dict |-> <<>>]

\* ChessGame._get_games: None unless a text is stored (a stored text is
\* never the empty string)
GetGames(raw) ==
  IF raw.isset
  THEN [none |-> FALSE, dict |-> JsonDecode(raw.text)]
  ELSE [none |-> TRUE, dict |-> <<>>]

\* ChessGame._set_games
SetGames(games) == [isset |-> TRUE, text |-> JsonEncode(games)]

\* A deletion that clears the whole dict.
RemoveAll(games, game_name) == <<>>

\* del games[game_name]
Remove(games, game_name) ==
  [n \in DOMAIN games \ {game_name} |-> games[n]]

(***************************************************************************)
(* The command handlers, as functions of what _get_games returned and of   *)
(* the command's arguments: the dict to persist (when write), the reply    *)
(* (the name of the embed field that reports the outcome), the game name   *)
(* the reply is about and the winner it names.                             *)
(***************************************************************************)
Result(games, write, text, game_name, winner) ==
  [games |-> games, write |-> write, text |-> text, name |-> game_name,
   winner |-> winner]

\* games[game_name] on None raises TypeError, which no handler catches
Unhandled(game_name) == Result(<<>>, FALSE, "TypeError", game_name, NoMember)

\* A collision check that tries one suffix only.
UniqueNameOnce(game_name, keys, count) ==
  IF game_name \in keys THEN game_name \o "1" ELSE game_name

RECURSIVE UniqueName(_, _, _)
\* start_game, lines 75-82: the first of game_name, game_name1, game_name2,
\* ... that is not a key
UniqueName(game_name, keys, count) ==
  LET suffix == IF count = 0 THEN "" ELSE ToString(count)
  IN IF (game_name \o suffix) \in keys
     THEN UniqueName(game_name, keys, count + 1)
     ELSE game_name \o suffix

\* A start_game that passes the two players in the other order.
ConstructSwapped(player_black, player_white, game_type) ==
  GameNew(player_white, player_black, game_type)

\* start_game, line 91: Game(player_black.id, player_white.id, game_type)
Construct(player_black, player_white, game_type) ==
  GameNew(player_black, player_white, game_type)

\* An except branch that stores a game of the default type instead.
InvalidGameTypeStored(games, game_name, player_black, player_white) ==
  Result([n \in DOMAIN games \cup {game_name} |->
            IF n = game_name
            THEN Construct(player_black, player_white, NoArg)
            ELSE games[n]],
         TRUE, "Invalid Game Type:", game_name, NoMember)

\* start_game, lines 92-95: except ValueError: report and return
InvalidGameType(games, game_name, player_black, player_white) ==
  Result(games, FALSE, "Invalid Game Type:", game_name, NoMember)

StartGameHandler(got, author, other_player, name_arg, game_type) ==
  LET games == IF got.none \/ DOMAIN got.dict = {} THEN <<>> ELSE got.dict
      player_black == author
      player_white == other_player
      game_name == UniqueName(IF name_arg = NoArg THEN "game" ELSE name_arg,
                              DOMAIN games, 0)
  IN IF player_black = player_white
     THEN Result(games, FALSE, "You cannot play chess with yourself",
                 name_arg, NoMember)
     ELSE IF ~GameTypeValid(game_type)
     THEN InvalidGameType(games, game_name, player_black, player_white)
     ELSE Result([n \in DOMAIN games \cup {game_name} |->
                    IF n = game_name
                    THEN Construct(player_black, player_white, game_type)
                    ELSE games[n]],
                 TRUE, "New Game", game_name, NoMember)

\* A turn check that lets either player of the game move.
TheirTurnEither(player_turn, player_next, author) ==
  author \in {player_turn, player_next}

\* move_piece, line 214: if player_turn == ctx.author
TheirTurn(player_turn, player_next, author) == player_turn = author

\* An except branch that drops the game and persists the rest.
InvalidMoveDropsGame(games, game_name) ==
  Result(Remove(games, game_name), TRUE, "Invalid Move Taken!", game_name,
         NoMember)

\* move_piece, lines 218-222: except ValueError: report and return
InvalidMove(games, game_name) ==
  Result(games, FALSE, "Invalid Move Taken!", game_name, NoMember)

\* A move_piece that keeps a finished game in the dict.
AppliedKeepsGame(games, game_name, r) ==
  Result([games EXCEPT ![game_name] = r.game], TRUE,
         IF r.is_game_over THEN "Game Over!"
         ELSE IF GameCanClaimDraw(r.game) THEN "Draw can be claimed"
         ELSE "Move",
         game_name, NoMember)

\* A move_piece that also ends the game when a draw can be claimed.
AppliedAutoDraw(games, game_name, r) ==
  IF r.is_game_over \/ GameCanClaimDraw(r.game)
  THEN Result(Remove(games, game_name), TRUE, "Game Over!", game_name,
              NoMember)
  ELSE Result([games EXCEPT ![game_name] = r.game], TRUE, "Move", game_name,
              NoMember)

\* A move_piece that persists the moved game with the threefold flag it
\* had before the move.
AppliedStaleFlag(games, game_name, r) ==
  IF r.is_game_over
  THEN Result(Remove(games, game_name), TRUE, "Game Over!", game_name,
              NoMember)
  ELSE Result([games EXCEPT ![game_name] =
                 [r.game EXCEPT !.threefold = games[game_name].threefold]],
              TRUE,
              IF GameCanClaimDraw(r.game) THEN "Draw can be claimed"
              ELSE "Move",
              game_name, NoMember)

\* move_piece, lines 224-255: the game, mutated in place by the engine, is
\* deleted from the dict when it is over; the dict is persisted
Applied(games, game_name, r) ==
  IF r.is_game_over
  THEN Result(Remove(games, game_name), TRUE, "Game Over!", game_name,
              NoMember)
  ELSE Result([games EXCEPT ![game_name] = r.game], TRUE,
              IF GameCanClaimDraw(r.game) THEN "Draw can be claimed"
              ELSE "Move",
              game_name, NoMember)

MovePieceHandler(got, game_name, author, move) ==
  IF got.none THEN Unhandled(game_name)
  ELSE IF game_name \notin DOMAIN got.dict
  THEN Result(got.dict, FALSE, "Game does not exist", game_name, NoMember)
  ELSE
    LET games == got.dict
        game == games[game_name]
        order == GameOrder(game)
        white_turn == order[2] = game.player_white_id
        player_turn == IF white_turn THEN game.player_white_id
                       ELSE game.player_black_id
        player_next == IF white_turn THEN game.player_black_id
                       ELSE game.player_white_id
        r == GameMovePiece(game, move)
    IN IF TheirTurn(player_turn, player_next, author)
       THEN IF r.raised
            THEN InvalidMove(games, game_name)
            ELSE Applied(games, game_name, r)
       ELSE IF player_next = author
       THEN Result(games, FALSE, "not your turn", game_name, NoMember)
       ELSE Result(games, FALSE, "not a player", game_name, NoMember)

\* A reaction added to the prompt: who reacted, and with which emoji.
NoReaction == [user |-> NoMember, yes |-> FALSE]
Reactions == {NoReaction} \cup [user : Members, yes : BOOLEAN]

\* A predicate that takes a reaction of any member.
MatchesAnyone(reaction, user) == reaction # NoReaction

\* ReactionPredicate.yes_or_no(message, user): the reaction counts when
\* `user` added it
Matches(reaction, user) == reaction # NoReaction /\ reaction.user = user

\* A resignation that names the resigning player as the winner.
ResignWinnerSelf(author, player_white, player_black) == author

\* resign, lines 327-343: the other player has won
ResignWinner(author, player_white, player_black) ==
  IF author = player_white THEN player_black ELSE player_white

ResignHandler(got, game_name, author, confirm, reaction) ==
  IF got.none THEN Unhandled(game_name)
  ELSE IF game_name \notin DOMAIN got.dict
  THEN Result(got.dict, FALSE, "Game does not exist", game_name, NoMember)
  ELSE
    LET games == got.dict
        game == games[game_name]
        player_white == game.player_white_id
        player_black == game.player_black_id
    IN IF author \notin {player_white, player_black}
       THEN Result(games, FALSE, "Not player", game_name, NoMember)
       ELSE IF ~confirm /\ ~Matches(reaction, author)
       \* wait_for is given no timeout: the handler waits on
       THEN Result(games, FALSE, "Please confirm.", game_name, NoMember)
       ELSE IF ~confirm /\ ~reaction.yes
       THEN Result(games, FALSE, "Cancelled", game_name, NoMember)
       ELSE Result(Remove(games, game_name), TRUE, "resigned", game_name,
                   ResignWinner(author, player_white, player_black))

fifty_moves == "Fifty moves"
threefold_repetition == "Threefold repetition"

\* A fifty-move test that does not look at the flag.
FiftyClaimAnyTime(claim_type, game) == fifty_moves = claim_type

\* A fifty-move test that compares the reason with another spelling.
FiftyClaimMisspelt(claim_type, game) ==
  "Fifty Moves" = claim_type /\ game.fifty

\* claim_draw, line 375
FiftyClaim(claim_type, game) == fifty_moves = claim_type /\ game.fifty

\* claim_draw, line 382
ThreefoldClaim(claim_type, game) ==
  threefold_repetition = claim_type /\ game.threefold

ClaimDrawHandler(got, game_name, claim_type) ==
  IF got.none THEN Unhandled(game_name)
  ELSE IF game_name \notin DOMAIN got.dict
  THEN Result(got.dict, FALSE, "Game does not exist", game_name, NoMember)
  ELSE
    LET games == got.dict
        game == games[game_name]
    IN IF FiftyClaim(claim_type, game)
       THEN Result(Remove(games, game_name), TRUE, "Draw!", game_name, NoMember)
       ELSE IF ThreefoldClaim(claim_type, game)
       THEN Result(Remove(games, game_name), TRUE, "Draw!", game_name, NoMember)
       ELSE Result(games, FALSE, "Unable to claim", game_name, NoMember)

\* A declined offer that ends the game all the same.
DeclinedEndsGame(games, game_name) ==
  Result(Remove(games, game_name), TRUE, "Draw declined!", game_name,
         NoMember)

\* by_agreement, lines 449-452: the offer was declined
Declined(games, game_name) ==
  Result(games, FALSE, "Draw declined!", game_name, NoMember)

\* by_agreement, lines 453-456: asyncio.TimeoutError after 30 seconds
TimedOut(games, game_name) ==
  Result(games, FALSE, "Timed out:", game_name, NoMember)

ByAgreementHandler(got, game_name, author, reaction) ==
  IF got.none THEN Unhandled(game_name)
  ELSE IF game_name \notin DOMAIN got.dict
  THEN Result(got.dict, FALSE, "Game does not exist", game_name, NoMember)
  ELSE
    LET games == got.dict
        game == games[game_name]
    IN IF author \notin {game.player_black_id, game.player_white_id}
       THEN Result(games, FALSE, "You are not part of this game", game_name,
                   NoMember)
       ELSE IF ~Matches(reaction, game.player_white_id)
       THEN TimedOut(games, game_name)
       ELSE IF reaction.yes
       THEN Result(Remove(games, game_name), TRUE, "Draw accepted!",
                   game_name, NoMember)
       ELSE Declined(games, game_name)

(***************************************************************************)
(* Commands run one at a time: each action is a whole handler, from its    *)
(* _get_games to its last reply.  `last` is the command that ran last,     *)
(* with its reply and the channel's stored value before it.                *)
(***************************************************************************)
Handlers == {"h1"}

\* A handler that is not running.
Idle ==
  [cmd |-> "idle", chan |-> "c1", name |-> NoArg, author |-> NoMember,
   other |-> NoMember, arg |-> NoArg, got |-> GetGames(NoValue)]

NoCommand ==
  [cmd |-> "none", chan |-> "c1", name |-> NoArg, author |-> NoMember,
   other |-> NoMember, arg |-> NoArg, react |-> NoReaction, text |-> "",
   winner |-> NoMember, before |-> NoValue]

Complete(cmd, c, author, other, arg, react, r) ==
  /\ store' = IF r.write THEN [store EXCEPT ![c] = SetGames(r.games)]
              ELSE store
  /\ last' = [cmd |-> cmd, chan |-> c, name |-> r.name, author |-> author,
              other |-> other, arg |-> arg, react |-> react,
              text |-> r.text, winner |-> r.winner, before |-> store[c]]
  /\ UNCHANGED pend

Stored(c) == GetGames(store[c]).dict

start_game(c, author, other_player, name_arg, game_type) ==
  Complete("start", c, author, other_player, game_type, NoReaction,
           StartGameHandler(GetGames(store[c]), author, other_player,
                            name_arg, game_type))

move_piece(c, author, game_name, move) ==
  Complete("move", c, author, NoMember, move, NoReaction,
           MovePieceHandler(GetGames(store[c]), game_name, author, move))

resign(c, author, game_name, confirm, reaction) ==
  Complete("resign", c, author, NoMember,
           IF confirm THEN "confirm" ELSE NoArg, reaction,
           ResignHandler(GetGames(store[c]), game_name, author, confirm,
                         reaction))

claim_draw(c, author, game_name, claim_type) ==
  Complete("claim", c, author, NoMember, claim_type, NoReaction,
           ClaimDrawHandler(GetGames(store[c]), game_name, claim_type))

by_agreement(c, author, game_name, reaction) ==
  Complete("agree", c, author, NoMember, NoArg, reaction,
           ByAgreementHandler(GetGames(store[c]), game_name, author, reaction))

\* the player whose turn it is
ToMove(g) == IF g.turn = "white" THEN g.player_white_id ELSE g.player_black_id

GameNames == {"game", "game1"}
ClaimTypes == {fifty_moves, threefold_repetition, "Stalemate"}

Init ==
  /\ store = [c \in Channels |-> NoValue]
  /\ last = NoCommand
  /\ pend = [h \in Handlers |-> Idle]

PliesLeft(c, game_name) ==
  game_name \in DOMAIN Stored(c) => Len(Stored(c)[game_name].moves) < MaxPlies

Next ==
  \/ \E c \in Channels, a \in Members, o \in Members, n \in NameArgs,
        t \in TypeArgs :
       /\ DOMAIN Stored(c) = {}
       /\ start_game(c, a, o, n, t)
  \/ \E c \in Channels, a \in Members, n \in GameNames, m \in Sans :
       /\ PliesLeft(c, n)
       /\ move_piece(c, a, n, m)
  \/ \E c \in Channels, a \in Members, n \in GameNames, k \in BOOLEAN,
        r \in Reactions :
       resign(c, a, n, k, r)
  \/ \E c \in Channels, a \in Members, n \in GameNames, t \in ClaimTypes :
       claim_draw(c, a, n, t)
  \/ \E c \in Channels, a \in Members, n \in GameNames, r \in Reactions :
       by_agreement(c, a, n, r)

Spec == Init /\ [][Next]_vars

(***************************************************************************)
(* One long game, commands run one at a time.  The players shuffle their   *)
(* knights forth and back for the first ShufflePlies plies and again once  *)
(* the half-move clock has reached FiftyMoveClock, and walk them forward   *)
(* in between; a pawn is pushed only late, when the clock is about to      *)
(* reach FiftyMoveClock or has reached it, at most MaxResets times.        *)
(***************************************************************************)
LongPlayers == {1, 2}
LongClaimants == {1, 3}

QuietSan(g) ==
  LET p == GameTotalMoves(g)
  IN IF (p < ShufflePlies \/ g.clock >= FiftyMoveClock) /\ p % 4 \in {2, 3}
     THEN "Ng1" ELSE "Nf3"

LongSans(g) ==
  {QuietSan(g), "Zz9"} \cup
  (IF g.clock >= FiftyMoveClock - 1 /\ g.board.pawns < MaxResets
   THEN {"e4"} ELSE {})

NextLong ==
  \/ \E c \in Channels :
       /\ ~store[c].isset
       /\ start_game(c, 2, 1, NoArg, NoArg)
  \/ \E c \in Channels, a \in LongPlayers :
     \E n \in DOMAIN Stored(c) :
     \E m \in LongSans(Stored(c)[n]) :
       /\ GameTotalMoves(Stored(c)[n]) < MaxLongPlies
       /\ move_piece(c, a, n, m)
  \/ \E c \in Channels, a \in LongClaimants, t \in ClaimTypes :
     \E n \in DOMAIN Stored(c) :
       claim_draw(c, a, n, t)

SpecLong == Init /\ [][NextLong]_vars

(***************************************************************************)
(* Starting and resigning games under colliding names, commands run one    *)
(* at a time, up to MaxGames games in the channel.                         *)
(***************************************************************************)
CollidingNames == {NoArg, "game", "game1", "game11"}
Challengers == {1, 2, 3}

NextNames ==
  \/ \E c \in Channels, a \in Challengers, n \in CollidingNames,
        t \in TypeArgs :
       /\ Cardinality(DOMAIN Stored(c)) < MaxGames
       /\ start_game(c, a, 1, n, t)
  \/ \E c \in Channels :
     \E n \in DOMAIN Stored(c) :
       resign(c, 1, n, TRUE, NoReaction)

SpecNames == Init /\ [][NextNames]_vars

(***************************************************************************)
(* Handlers of one channel interleaved.  A handler is suspended where it   *)
(* waits between its _get_games and its _set_games: resign at the wait for *)
(* the reaction and at the reply (lines 317, 347-349), by_agreement at the *)
(* offer and the wait for the reaction (lines 433, 442).  pend[h] is a     *)
(* suspended handler: its command and the dict it got.  start_game and     *)
(* move_piece are taken to run in one step: between their _get_games and   *)
(* their _set_games they await nothing that waits for a user.              *)
(***************************************************************************)
Suspend(h, cmd, c, author, other, game_name, arg) ==
  /\ pend[h] = Idle
  /\ pend' = [pend EXCEPT ![h] =
                [cmd |-> cmd, chan |-> c, name |-> game_name,
                 author |-> author, other |-> other, arg |-> arg,
                 got |-> GetGames(store[c])]]
  /\ UNCHANGED <<store, last>>

Resume(h, react, r) ==
  /\ store' = IF r.write
              THEN [store EXCEPT ![pend[h].chan] = SetGames(r.games)]
              ELSE store
  /\ last' = [cmd |-> pend[h].cmd, chan |-> pend[h].chan, name |-> r.name,
              author |-> pend[h].author, other |-> pend[h].other,
              arg |-> pend[h].arg, react |-> react, text |-> r.text,
              winner |-> r.winner, before |-> store[pend[h].chan]]
  /\ pend' = [pend EXCEPT ![h] = Idle]

resign_begin(h, c, author, game_name, confirm) ==
  Suspend(h, "resign", c, author, NoMember, game_name,
          IF confirm THEN "confirm" ELSE NoArg)

\* Without confirm the handler is in wait_for, which is given no timeout
\* (line 317) and returns only on a reaction of the author; with confirm it
\* waited for nothing but the reply to be sent.
resign_end(h, reaction) ==
  /\ pend[h].cmd = "resign"
  /\ pend[h].arg = "confirm" \/ Matches(reaction, pend[h].author)
  /\ Resume(h, reaction,
            ResignHandler(pend[h].got, pend[h].name, pend[h].author,
                          pend[h].arg = "confirm", reaction))

by_agreement_begin(h, c, author, game_name) ==
  Suspend(h, "agree", c, author, NoMember, game_name, NoArg)

by_agreement_end(h, reaction) ==
  /\ pend[h].cmd = "agree"
  /\ Resume(h, reaction,
            ByAgreementHandler(pend[h].got, pend[h].name, pend[h].author,
                               reaction))

Rivals == {1, 2}
Answers == {NoReaction} \cup [user : Rivals, yes : {TRUE}]

NextInterleaved ==
  \/ \E c \in Channels :
       /\ Cardinality(DOMAIN Stored(c)) < MaxRivalGames
       /\ start_game(c, 2, 1, NoArg, NoArg)
  \/ \E c \in Channels, a \in Rivals :
     \E n \in DOMAIN Stored(c) :
       /\ PliesLeft(c, n)
       /\ move_piece(c, a, n, "Nf3")
  \/ \E h \in Handlers, c \in Channels, a \in Rivals, k \in BOOLEAN :
     \E n \in DOMAIN Stored(c) :
       resign_begin(h, c, a, n, k)
  \/ \E h \in Handlers, r \in Answers : resign_end(h, r)
  \/ \E h \in Handlers, c \in Channels, a \in Rivals :
     \E n \in DOMAIN Stored(c) :
       by_agreement_begin(h, c, a, n)
  \/ \E h \in Handlers, r \in Answers : by_agreement_end(h, r)

SpecInterleaved == Init /\ [][NextInterleaved]_vars

\* What a suspended handler does without any user doing anything: the
\* reply of a confirmed resign gets sent, the 30 seconds of by_agreement's
\* wait_for (line 442) run out.
Proceed(h) ==
  \/ pend[h].arg = "confirm" /\ resign_end(h, NoReaction)
  \/ by_agreement_end(h, NoReaction)

\* The event loop runs every handler that can proceed; members send
\* commands and react when they like, or never.
SpecWaiting == SpecInterleaved /\ \A h \in Handlers : WF_vars(Proceed(h))

(***************************************************************************)
(* Several games in each of two channels, commands run one at a time.  The *)
(* game 'game' of channel c1 is played on for ShufflePlies plies of knight *)
(* shuffling, after which its position has occurred three times; the other *)
(* games get MaxRoomPlies plies.                                           *)
(***************************************************************************)
MaxRoomPlies == 1
Rooms == {"c1", "c2"}

RoomPlies(c, game_name) ==
  IF c = "c1" /\ game_name = "game" THEN ShufflePlies ELSE MaxRoomPlies

Offers == {NoReaction, [user |-> 1, yes |-> TRUE]}

InitSessions ==
  /\ store = [c \in Rooms |-> NoValue]
  /\ last = NoCommand
  /\ pend = [h \in Handlers |-> Idle]

NextSessions ==
  \/ \E c \in Rooms, n \in GameNames :
       /\ n \notin DOMAIN Stored(c)
       /\ start_game(c, 2, 1, n, NoArg)
  \/ \E c \in Rooms, a \in Rivals :
     \E n \in DOMAIN Stored(c) :
       /\ GameTotalMoves(Stored(c)[n]) < RoomPlies(c, n)
       /\ move_piece(c, a, n, QuietSan(Stored(c)[n]))
  \/ \E c \in Rooms, a \in Rivals :
     \E n \in DOMAIN Stored(c) :
       resign(c, a, n, TRUE, NoReaction)
  \/ \E c \in Rooms :
     \E n \in DOMAIN Stored(c) :
       claim_draw(c, 1, n, threefold_repetition)
  \/ \E c \in Rooms, a \in Rivals, r \in Offers :
     \E n \in DOMAIN Stored(c) :
       by_agreement(c, a, n, r)

SpecSessions == InitSessions /\ [][NextSessions]_vars

(***************************************************************************)
(* One game in which positions repeat, commands run one at a time.  The    *)
(* players shuffle their knights forth and back; white may open with a     *)
(* pawn push, which leaves an en-passant target for one ply, and a pawn    *)
(* may be pushed once a position has occurred three times, if none was     *)
(* pushed before; within the first MaxKingPlies plies a player may move    *)
(* the king, away or back home, which costs the castling rights.           *)
(***************************************************************************)
MaxRepeatPlies == 13
MaxKingPlies == 5

ShuffleSan(g) == IF g.board.knight[g.turn] = 0 THEN "Nf3" ELSE "Ng1"

RepeatSans(g) ==
  {ShuffleSan(g)} \cup
  (IF GameTotalMoves(g) = 0 \/ (g.threefold /\ g.board.pawns < MaxResets)
   THEN {"e4"} ELSE {}) \cup
  (IF g.board.pawns >= 1 /\ GameTotalMoves(g) < MaxKingPlies
   THEN {"Ke2"} ELSE {})

NextRepeat ==
  \/ \E c \in Channels :
       /\ ~store[c].isset
       /\ start_game(c, 2, 1, NoArg, NoArg)
  \/ \E c \in Channels :
     \E n \in DOMAIN Stored(c) :
     \E m \in RepeatSans(Stored(c)[n]) :
       /\ GameTotalMoves(Stored(c)[n]) < MaxRepeatPlies
       /\ move_piece(c, ToMove(Stored(c)[n]), n, m)
  \/ \E c \in Channels, a \in LongClaimants :
     \E n \in DOMAIN Stored(c) :
       claim_draw(c, a, n, threefold_repetition)

SpecRepeat == Init /\ [][NextRepeat]_vars

(***************************************************************************)
(* What the last command found and what it left.                           *)
(***************************************************************************)
Before == GetGames(last.before).dict
After == Stored(last.chan)
Had == ~GetGames(last.before).none /\ last.name \in DOMAIN Before
Has == last.name \in DOMAIN After
Untouched == store[last.chan] = last.before
Players(g) == {g.player_white_id, g.player_black_id}
Waiting(g) == IF g.turn = "white" THEN g.player_black_id ELSE g.player_white_id
MoveApplied == last.cmd = "move" /\ last.text \in {"Move", "Draw can be claimed"}

\* C1: turns alternate white, black, white, ... starting with white, the
\* player named as other_player at start: a new game has white = other_player
\* to move and no moves; an applied move was made by the player to move,
\* passes the turn to the other player and adds exactly 1 to the move count;
\* so the side to move of every stored game is white after an even and black
\* after an odd number of moves.
C1_TurnsAlternate ==
  /\ \A c \in Channels : \A n \in DOMAIN Stored(c) :
       LET g == Stored(c)[n]
       IN /\ g.turn = (IF GameTotalMoves(g) % 2 = 0 THEN "white" ELSE "black")
          /\ GameOrder(g)[2] = ToMove(g)
          /\ GameOrder(g)[3] = Waiting(g)
          /\ ToMove(g) # Waiting(g)
  /\ (last.cmd = "start" /\ last.text = "New Game") =>
       /\ Has
       /\ After[last.name].player_white_id = last.other
       /\ After[last.name].player_black_id = last.author
       /\ GameOrder(After[last.name]) = <<"White", last.other, last.author>>
       /\ GameTotalMoves(After[last.name]) = 0
  /\ MoveApplied =>
       /\ Had /\ Has
       /\ last.author = ToMove(Before[last.name])
       /\ ToMove(After[last.name]) = Waiting(Before[last.name])
       /\ After[last.name].turn = Other(Before[last.name].turn)
       /\ GameTotalMoves(After[last.name]) =
            GameTotalMoves(Before[last.name]) + 1
       /\ Players(After[last.name]) = Players(Before[last.name])

\* Scenario A: the first move of a fresh game was applied, black is to move
\* and the move count is 1.
C1_Witness ==
  /\ MoveApplied /\ Has
  /\ GameTotalMoves(After[last.name]) = 1
  /\ After[last.name].turn = "black"
  /\ last.author = After[last.name].player_white_id

\* C2: a move command by the player of the game whose turn it is not is not
\* applied: the channel's stored value is what it was before the command
\* (position, history, move count and turn included), and the reply says so.
C2_NotYourTurn ==
  (/\ last.cmd = "move"
   /\ Had
   /\ last.author = Waiting(Before[last.name])) =>
     /\ Untouched
     /\ last.text = "not your turn"

\* The waiting player sent a move that would have been legal for the side
\* to move, in a game that already has a move.
C2_Witness ==
  /\ last.cmd = "move" /\ Had
  /\ last.author = Waiting(Before[last.name])
  /\ LegalSan(Before[last.name], last.arg)
  /\ GameTotalMoves(Before[last.name]) = 1
  /\ last.text = "not your turn"

\* C3: a move command by the player to move that the engine rejects fails
\* and leaves the stored value unchanged: same position, history, move
\* count and side to move, and still the same player's turn.
C3_RejectedMove ==
  (/\ last.cmd = "move"
   /\ Had
   /\ last.author = ToMove(Before[last.name])
   /\ ~LegalSan(Before[last.name], last.arg)) =>
     /\ last.text = "Invalid Move Taken!"
     /\ Untouched
     /\ Has
     /\ After[last.name] = Before[last.name]
     /\ ToMove(After[last.name]) = last.author

\* An illegal move (a mate that is not on the board) was rejected in a game
\* that already has a move.
C3_Witness ==
  /\ last.cmd = "move" /\ Had
  /\ last.author = ToMove(Before[last.name])
  /\ last.arg = "Qxf7#"
  /\ GameTotalMoves(Before[last.name]) = 1
  /\ last.text = "Invalid Move Taken!"

Ending == {"Game Over!", "resigned", "Draw!", "Draw accepted!"}

\* C4: terminal states are absorbing.  No stored game is in a terminal
\* state; a command that ends a game removes it from the store; only
\* start_game adds a name to the store; and a move or draw claim naming a
\* game that is not in the store fails and changes nothing.
C4_TerminalAbsorbing ==
  /\ \A c \in Channels : \A n \in DOMAIN Stored(c) :
       Stored(c)[n].state = "InProgress"
  /\ last.text \in Ending => Had /\ ~Has
  /\ last.cmd # "start" => DOMAIN After \subseteq DOMAIN Before
  /\ (/\ last.cmd \in {"move", "claim"}
      /\ last.before.isset
      /\ last.name \notin DOMAIN Before) =>
        /\ last.text = "Game does not exist"
        /\ Untouched

\* A move was sent to a game after it had ended: the store had been
\* written and holds no game any more.
C4_Witness ==
  /\ last.cmd = "move"
  /\ last.before.isset
  /\ DOMAIN Before = {}
  /\ last.arg = "Nf3"
  /\ last.text = "Game does not exist"

\* The member m reacted to the prompt of the last command.
ReactedBy(m) == last.react # NoReaction /\ last.react.user = m

Confirmed ==
  last.arg = "confirm" \/ (ReactedBy(last.author) /\ last.react.yes)

\* C5: either player of a stored game may resign, whoever is to move; a
\* confirmed resignation removes the game and names the other player as the
\* winner (black when white resigns, white when black resigns).
C5_Resign ==
  /\ (/\ last.cmd = "resign"
      /\ Had
      /\ last.author \in Players(Before[last.name])
      /\ Confirmed) =>
        /\ last.text = "resigned"
        /\ ~Has
        /\ After = Remove(Before, last.name)
        /\ last.winner \in Players(Before[last.name]) \ {last.author}
  /\ (last.cmd = "resign" /\ last.text = "resigned") =>
        /\ Had
        /\ last.winner = (IF last.author = Before[last.name].player_white_id
                          THEN Before[last.name].player_black_id
                          ELSE Before[last.name].player_white_id)

\* The player who is not to move resigned mid-game and the other player won.
C5_Witness ==
  /\ last.cmd = "resign" /\ last.text = "resigned" /\ Had
  /\ last.author = Waiting(Before[last.name])
  /\ GameTotalMoves(Before[last.name]) = 1
  /\ last.winner = ToMove(Before[last.name])
  /\ ~Has

Reason(claim_type, g) ==
  \/ claim_type = fifty_moves /\ g.fifty
  \/ claim_type = threefold_repetition /\ g.threefold

\* C6: claim_draw(reason) ends the game only if the flag of that reason is
\* set; with the flag false, a reason naming the other flag or an unknown
\* reason, the claim fails, the game stays in the store and the store is
\* not written.
C6_ClaimNeedsFlag ==
  (last.cmd = "claim" /\ Had) =>
     /\ (~Has \/ last.text = "Draw!") => Reason(last.arg, Before[last.name])
     /\ ~Reason(last.arg, Before[last.name]) =>
          /\ last.text = "Unable to claim"
          /\ Untouched
          /\ Has
          /\ After[last.name].state = "InProgress"

\* 'Fifty moves' was claimed while only a threefold repetition could be.
C6_Witness ==
  /\ last.cmd = "claim" /\ Had
  /\ last.arg = fifty_moves
  /\ Before[last.name].threefold /\ ~Before[last.name].fifty
  /\ last.text = "Unable to claim"
  /\ Has

\* C7: no automatic draw on fifty moves or threefold repetition.  A move
\* after which a draw can be claimed, and which is not checkmate, stalemate
\* or insufficient material, leaves the game in progress in the store; a
\* legal move on a game whose draw can be claimed is applied like any other;
\* and such a game leaves the store only by a command that ends it.
C7_NoAutoDraw ==
  /\ (/\ last.cmd = "move" /\ Had
      /\ last.author = ToMove(Before[last.name])
      /\ LegalSan(Before[last.name], last.arg)) =>
       LET r == GameMovePiece(Before[last.name], last.arg)
       IN /\ (GameCanClaimDraw(r.game) /\ r.game.state = "InProgress") =>
               /\ Has
               /\ After[last.name] = r.game
               /\ last.text = "Draw can be claimed"
          /\ GameCanClaimDraw(Before[last.name]) =>
               /\ last.text \in {"Move", "Draw can be claimed", "Game Over!"}
               /\ Has => GameTotalMoves(After[last.name]) =
                           GameTotalMoves(Before[last.name]) + 1
  /\ (Had /\ ~Has) => last.text \in Ending

\* A move was applied to a game whose draw could already be claimed, and
\* the draw can still be claimed.
C7_Witness ==
  /\ last.cmd = "move" /\ Had /\ Has
  /\ Before[last.name].threefold
  /\ After[last.name].threefold
  /\ last.text = "Draw can be claimed"
  /\ GameTotalMoves(After[last.name]) = GameTotalMoves(Before[last.name]) + 1

\* the number of moves since the last capture or pawn move
QuietTail(moves) ==
  LET resets == {i \in 1..Len(moves) :
                   IsPawnMove(moves[i]) \/ IsCapture(moves[i])}
  IN IF resets = {} THEN Len(moves)
     ELSE Len(moves) - (CHOOSE i \in resets : \A j \in resets : j <= i)

\* C8: can_claim_fifty_moves of a stored game is true exactly while its
\* half-move clock, the number of moves since the last capture or pawn
\* move, is at least 100: it becomes true by the move that brings the clock
\* to 100 and false again by a capture or pawn move, which resets the clock
\* to 0; while it is true, claim_draw('Fifty moves') ends the game as a
\* claimed draw.
C8_FiftyMoves ==
  /\ \A c \in Channels : \A n \in DOMAIN Stored(c) :
       LET g == Stored(c)[n]
       IN /\ g.clock = QuietTail(g.moves)
          /\ g.fifty <=> g.clock >= 100
  /\ (MoveApplied /\ Had /\ Has) =>
       LET b == Before[last.name]
           a == After[last.name]
           reset == IsPawnMove(last.arg) \/ IsCapture(last.arg)
       IN /\ a.clock = (IF reset THEN 0 ELSE b.clock + 1)
          /\ (a.fifty /\ ~b.fifty) => a.clock = 100
          /\ (b.fifty /\ ~reset) => a.fifty
          /\ reset => ~a.fifty
  /\ (/\ last.cmd = "claim" /\ Had
      /\ last.arg = fifty_moves
      /\ Before[last.name].fifty) =>
        /\ last.text = "Draw!"
        /\ ~Has
        /\ After = Remove(Before, last.name)

\* 'Fifty moves' was claimed, and granted, at clock 100 in a position that
\* had not occurred three times.
C8_Witness ==
  /\ last.cmd = "claim" /\ Had /\ ~Has
  /\ last.arg = fifty_moves
  /\ Before[last.name].clock = 100
  /\ ~Before[last.name].threefold
  /\ last.text = "Draw!"

\* C10: start_game handles name collisions.  Whatever the channel stores
\* and whatever name is asked for (or none: 'game'), a start_game between
\* two different members with a valid game type stores the new game under
\* a name that was not in the store: every game stored before is still
\* there, unchanged, and there is exactly one more name.  A start_game that
\* is refused leaves the store as it was.
C10_NameCollisions ==
  last.cmd = "start" =>
    /\ (last.author # last.other /\ GameTypeValid(last.arg)) =>
         last.text = "New Game"
    /\ last.text = "New Game" =>
         /\ last.name \notin DOMAIN Before
         /\ DOMAIN After = DOMAIN Before \cup {last.name}
         /\ \A n \in DOMAIN Before : After[n] = Before[n]
         /\ Cardinality(DOMAIN After) = Cardinality(DOMAIN Before) + 1
         /\ After[last.name] = GameNew(last.author, last.other, last.arg)
    /\ last.text # "New Game" => Untouched

\* A game was started while 'game' and 'game1' were both taken, and was
\* stored as 'game2'.
C10_Witness ==
  /\ last.cmd = "start" /\ last.text = "New Game"
  /\ {"game", "game1"} \subseteq DOMAIN Before
  /\ last.name = "game2"
  /\ Has

\* The handler whose step this is targeted the game named n: a suspended
\* handler resumed, or a move_piece ran.
StepTargets(n) ==
  \/ \E h \in Handlers :
       pend[h] # Idle /\ pend'[h] = Idle /\ pend[h].name = n
  \/ pend' = pend /\ last'.name = n

\* C9: under any interleaving of the handlers of a channel no persisted
\* update is lost or reverted by another handler's later write: the stored
\* history of a game that stays in the store never gets shorter, and a
\* stored game is removed only by a handler that targeted it.
C9_NoLostUpdate ==
  [][\A c \in Channels : \A n \in DOMAIN Stored(c) :
       IF n \in DOMAIN Stored(c)'
       THEN GameTotalMoves(Stored(c)'[n]) >= GameTotalMoves(Stored(c)[n])
       ELSE StepTargets(n)]_vars

OnGame == {"move", "resign", "claim", "agree"}

\* C11: sessions are independent.  When commands run one at a time, a
\* move, resign, draw claim or draw by agreement on game G of channel C
\* changes at most the entry G of channel C: every other game of C is still
\* stored and is what it was, no game is added, and the stored value of
\* every other channel is what it was.
C11_SessionsIndependent ==
  [][last'.cmd \in OnGame =>
       /\ \A c \in Rooms : \A n \in DOMAIN Stored(c) :
            (c # last'.chan \/ n # last'.name) =>
               /\ n \in DOMAIN Stored(c)'
               /\ Stored(c)'[n] = Stored(c)[n]
       /\ \A c \in Rooms : DOMAIN Stored(c)' \subseteq DOMAIN Stored(c)
       /\ \A c \in Rooms \ {last'.chan} : store'[c] = store[c]]_vars

\* A draw was claimed, and granted, in the game 'game' of channel c1 while
\* 'game1' of c1 and 'game' of c2 each had a move played: both are still
\* stored.
C11_Witness ==
  /\ last.cmd = "claim" /\ last.text = "Draw!"
  /\ last.chan = "c1" /\ last.name = "game"
  /\ DOMAIN Stored("c1") = {"game1"}
  /\ GameTotalMoves(Stored("c1")["game1"]) = 1
  /\ "game" \in DOMAIN Stored("c2")
  /\ GameTotalMoves(Stored("c2")["game"]) = 1

\* What the last command computed, from what it read and its arguments.
Replay ==
  LET got == GetGames(last.before)
  IN CASE last.cmd = "start" ->
            StartGameHandler(got, last.author, last.other, last.name, last.arg)
       [] last.cmd = "move" ->
            MovePieceHandler(got, last.name, last.author, last.arg)
       [] last.cmd = "resign" ->
            ResignHandler(got, last.name, last.author, last.arg = "confirm",
                          last.react)
       [] last.cmd = "claim" -> ClaimDrawHandler(got, last.name, last.arg)
       [] last.cmd = "agree" ->
            ByAgreementHandler(got, last.name, last.author, last.react)
       [] OTHER -> Result(<<>>, FALSE, "", NoArg, NoMember)

\* The queryable fields of a game.
Fields(g) ==
  [players |-> <<g.player_white_id, g.player_black_id>>, variant |-> g.type,
   position |-> PositionKey(g), history |-> g.moves,
   total_moves |-> GameTotalMoves(g), order |-> GameOrder(g),
   state |-> g.state, can_claim_fifty_moves |-> g.fifty,
   can_claim_threefold_repetition |-> g.threefold,
   can_claim_draw |-> GameCanClaimDraw(g)]

C13_InvalidVariant ==
  /\ (last.cmd = "start" /\ ~GameTypeValid(last.arg)) =>
       /\ last.text \in {"Invalid Game Type:",
                         "You cannot play chess with yourself"}
       /\ last.author # last.other => last.text = "Invalid Game Type:"
       /\ Untouched
       /\ DOMAIN After = DOMAIN Before
       /\ \A n \in DOMAIN Before : After[n] = Before[n]
  /\ (last.cmd = "start" /\ last.text = "Invalid Game Type:") =>
       ~GameTypeValid(last.arg) /\ Untouched
  /\ \A c \in Channels : \A n \in DOMAIN Stored(c) :
       Stored(c)[n].type \in Variants

\* A game of type 'Shogi' was asked for between two members while 'game'
\* was stored: it would have been 'game1', and 'game' alone is stored.
C13_Witness ==
  /\ last.cmd = "start" /\ last.arg = "Shogi"
  /\ last.author # last.other
  /\ last.text = "Invalid Game Type:"
  /\ last.name = "game1"
  /\ DOMAIN Before = {"game"}
  /\ DOMAIN After = {"game"}

\* The colour that makes the i-th move of a game.
Mover(i) == IF i % 2 = 1 THEN "white" ELSE "black"

Count(moves, i, color, sans) ==
  Cardinality({j \in 1..i : Mover(j) = color /\ moves[j] \in sans})

\* The position after the first i moves of a history: placement, side to
\* move, castling rights, en-passant target.
PositionAfter(moves, i) ==
  << [knight |-> [c \in Colors |-> Count(moves, i, c, {"Nf3"})
                                     - Count(moves, i, c, {"Ng1"})],
      king |-> [c \in Colors |-> Count(moves, i, c, {"Ke2"}) % 2 = 1],
      pawns |-> Cardinality({j \in 1..i : IsPawnMove(moves[j])}),
      material |-> StartMaterial
                     - Cardinality({j \in 1..i : IsCapture(moves[j])})],
     IF i % 2 = 0 THEN "white" ELSE "black",
     [c \in Colors |-> Count(moves, i, c, {"Ke2"}) = 0],
     i > 0 /\ moves[i] = "e4" >>

\* The earlier snapshots identical to the current position.
EarlierSame(moves) ==
  {i \in 0..(Len(moves) - 1) :
     PositionAfter(moves, i) = PositionAfter(moves, Len(moves))}

\* The earlier snapshots with the placement and side to move of the
\* current position.
EarlierAlike(moves) ==
  {i \in 0..(Len(moves) - 1) :
     /\ PositionAfter(moves, i)[1] = PositionAfter(moves, Len(moves))[1]
     /\ PositionAfter(moves, i)[2] = PositionAfter(moves, Len(moves))[2]}

C15_AcceptedByOpponent ==
  (/\ last.cmd = "agree" /\ Had
   /\ last.author \in Players(Before[last.name])) =>
     LET opponent == CHOOSE m \in Players(Before[last.name]) : m # last.author
     IN /\ ~Has => /\ ReactedBy(opponent)
                   /\ last.react.yes
        /\ (ReactedBy(opponent) /\ last.react.yes) =>
              ~Has /\ last.text = "Draw accepted!"
        /\ ReactedBy(last.author) => Has /\ Untouched

\* Unless the reaction to a draw offer is a 'yes', the offer ends declined
\* or timed out.
NotAccepted ==
  /\ last.cmd = "agree" /\ Had
  /\ last.author \in Players(Before[last.name])
  /\ (last.react = NoReaction \/ ~last.react.yes)

\* C16: a draw offer that is declined, or that gets no response within the
\* 30 seconds, leaves the game unchanged: nothing is written, the game is
\* still stored, in progress, with the same position, history and turn.
C16_DeclinedOffer ==
  (NotAccepted \/ (last.cmd = "agree" /\ last.text \in {"Draw declined!",
                                                       "Timed out:"})) =>
     /\ last.text \in {"Draw declined!", "Timed out:"}
     /\ ~Replay.write
     /\ Untouched
     /\ Has
     /\ After[last.name] = Before[last.name]
     /\ After[last.name].state = "InProgress"
     /\ ToMove(After[last.name]) = ToMove(Before[last.name])

\* Black offered a draw after the first move and white declined.
C16_Witness ==
  /\ last.cmd = "agree" /\ Had /\ Has
  /\ last.author = Before[last.name].player_black_id
  /\ ReactedBy(Before[last.name].player_white_id)
  /\ ~last.react.yes
  /\ last.text = "Draw declined!"
  /\ GameTotalMoves(After[last.name]) = 1

\* C17: a resign command issued without confirm always terminates: once it
\* waits at the confirmation prompt it eventually ends, by the author's
\* reaction or, when the author never reacts, by reporting 'Timed out'.
C17_ResignTerminates ==
  \A h \in Handlers :
    (pend[h].cmd = "resign" /\ pend[h].arg # "confirm") ~> (pend[h] = Idle)

\* C18: a resign command removes the game only if it was issued with
\* confirm true or its author reacted 'yes' to the confirmation prompt, and
\* only for a player of the game; after a 'no' of the author the command
\* ends cancelled, and a 'no', or a reaction by anyone other than the
\* author, leaves the game and the store unchanged.
C18_ResignNeedsConfirm ==
  (last.cmd = "resign" /\ Had) =>
     /\ ~Has => Confirmed /\ last.author \in Players(Before[last.name])
     /\ ~Confirmed =>
          /\ ~Replay.write
          /\ Untouched
          /\ Has
          /\ After[last.name] = Before[last.name]
          /\ last.text \in {"Cancelled", "Please confirm.", "Not player"}
     /\ (/\ last.author \in Players(Before[last.name])
         /\ last.arg # "confirm"
         /\ ReactedBy(last.author)
         /\ ~last.react.yes) => last.text = "Cancelled"

\* A player resigned without confirm after the first move and the other
\* player reacted 'yes' to the prompt: the game is still stored.
C18_Witness ==
  /\ last.cmd = "resign" /\ Had /\ Has
  /\ last.arg # "confirm"
  /\ last.author \in Players(Before[last.name])
  /\ last.react # NoReaction /\ last.react.yes
  /\ last.react.user \in Players(Before[last.name]) \ {last.author}
  /\ GameTotalMoves(After[last.name]) = 1
  /\ Untouched

\* C19: only the two players of a game can change or end it: a move,
\* resign, draw claim or draw offer by a member who is neither its white
\* nor its black player leaves the game stored and unchanged and writes
\* nothing.
C19_OnlyPlayers ==
  (/\ last.cmd \in OnGame /\ Had
   /\ last.author \notin Players(Before[last.name])) =>
     /\ Untouched
     /\ Has
     /\ After[last.name] = Before[last.name]

\* C20: whatever the channel stores, also when nothing was ever stored in
\* it, a move, resign, draw claim or draw offer naming a game that is not
\* in the store ends with 'Game does not exist' and leaves the store as it
\* was.
C20_MissingGame ==
  (last.cmd \in OnGame /\ ~Had) =>
     /\ last.text = "Game does not exist"
     /\ Untouched

====
